---- MODULE Spec2Model ----
(***************************************************************************)
(* Mesh construction of src/src/geometries.rs: Mesh2::new and Mesh3::new   *)
(* (length assertion, effective matrix, parallel per-vertex transform and  *)
(* packing, index width selection and narrowing), the Geometry queries on  *)
(* the built mesh, the Rectangle constructors that delegate to Mesh2::new, *)
(* and the constant index data of Pentagon and Cube.                       *)
(***************************************************************************)
EXTENDS Integers, Sequences, FiniteSets, TLC

VARIABLES pc, kind, args, slots, pending, outOfOrder, mesh

vars == <<pc, kind, args, slots, pending, outOfOrder, mesh>>

\* u16::MAX, the vertex count up to which 16-bit indices are chosen.
U16Max == 65535

\* Longest position / attribute list of a generic call (the large lists of
\* LargeLens and the four-vertex rectangles are added to these).
MaxLen == 2

\* Longest index list of a generic call.
MaxIdx == 2

\* Number of values of a 16-bit limb.
U16Radix == U16Max + 1

(***************************************************************************)
(* f32 values.  A finite value is the exact rational num/den in lowest     *)
(* terms; a division by zero gives an infinity or a NaN as IEEE-754        *)
(* defines.  Rounding is not modelled: every input of the model and every  *)
(* result computed from it is a small dyadic rational, which f32 holds     *)
(* exactly.  Zero is unsigned (every zero divisor of the model is +0).     *)
(***************************************************************************)
Abs(n) == IF n < 0 THEN -n ELSE n

RECURSIVE GCD(_, _)
GCD(a, b) == IF b = 0 THEN a ELSE GCD(b, a % b)

Fin(n, d) ==
    LET g == GCD(Abs(n), d)
    IN  [cls |-> "finite", num |-> n \div g, den |-> d \div g]

Inf(s) == [cls |-> "inf", num |-> s, den |-> 0]

NaN == [cls |-> "nan", num |-> 0, den |-> 0]

Sign(n) == IF n < 0 THEN -1 ELSE IF n > 0 THEN 1 ELSE 0

IsFinite(a) == a.cls = "finite"

IsZero(a) == a.cls = "finite" /\ a.num = 0

\* f32 + f32 and f32 * f32 (operands finite: they are only applied before
\* the perspective divide, to finite inputs and matrix entries).
FAdd(a, b) == Fin(a.num * b.den + b.num * a.den, a.den * b.den)

FMul(a, b) == Fin(a.num * b.num, a.den * b.den)

\* f32 / f32 on finite operands: x/0 is +-inf, 0/0 is NaN, no error is raised.
FDiv(a, b) ==
    IF b.num = 0
    THEN IF a.num = 0 THEN NaN ELSE Inf(Sign(a.num))
    ELSE Fin(a.num * b.den * Sign(b.num), a.den * Abs(b.num))

F0 == Fin(0, 1)

F1 == Fin(1, 1)

FHalf == Fin(1, 2)

FNeg1 == Fin(-1, 1)

(***************************************************************************)
(* cgmath vectors and column-major 4x4 matrices.                           *)
(***************************************************************************)
V2New(x, y) == [x |-> x, y |-> y]

V3New(x, y, z) == [x |-> x, y |-> y, z |-> z]

V4New(x, y, z, w) == [x |-> x, y |-> y, z |-> z, w |-> w]

\* Matrix4::new takes the entries column by column; a matrix is its 4 columns.
Mat4New(c0, c1, c2, c3) == <<c0, c1, c2, c3>>

V4Scale(c, s) == V4New(FMul(c.x, s), FMul(c.y, s), FMul(c.z, s), FMul(c.w, s))

V4Add(a, b) == V4New(FAdd(a.x, b.x), FAdd(a.y, b.y), FAdd(a.z, b.z), FAdd(a.w, b.w))

\* Matrix4 * Vector4: the columns weighted by the vector's components.
MulMV(m, v) ==
    V4Add(V4Add(V4Add(V4Scale(m[1], v.x), V4Scale(m[2], v.y)),
                V4Scale(m[3], v.z)),
          V4Scale(m[4], v.w))

\* Matrix4 * Matrix4: the left matrix applied to each column of the right one.
MulMM(a, b) == Mat4New(MulMV(a, b[1]), MulMV(a, b[2]), MulMV(a, b[3]), MulMV(a, b[4]))

\* crate::rendering::OPENGL_TO_WGPU_MATRIX: z' = 0.5 z + 0.5 w, x, y, w kept.
OPENGL_TO_WGPU_MATRIX ==
    Mat4New(V4New(F1, F0, F0, F0),
            V4New(F0, F1, F0, F0),
            V4New(F0, F0, FHalf, F0),
            V4New(F0, F0, FHalf, F1))

\* Option<Mat4>: None is <<>>, Some(m) is <<m>>.
None == <<>>

Some(m) == <<m>>

Mat4Identity ==
    Mat4New(V4New(F1, F0, F0, F0),
            V4New(F0, F1, F0, F0),
            V4New(F0, F0, F1, F0),
            V4New(F0, F0, F0, F1))

\* Mutant of EffectiveMatrix: without a matrix, the conversion is left out.
EffectiveMatrix_noConversion(transform_matrix) ==
    IF transform_matrix # None
    THEN MulMM(transform_matrix[1], OPENGL_TO_WGPU_MATRIX)
    ELSE Mat4Identity

\* Lines 48-52: transform_mat * OPENGL_TO_WGPU_MATRIX, or the latter alone.
EffectiveMatrix(transform_matrix) ==
    IF transform_matrix # None
    THEN MulMM(transform_matrix[1], OPENGL_TO_WGPU_MATRIX)
    ELSE OPENGL_TO_WGPU_MATRIX

\* The homogeneous image of a position: transform_matrix * V4::new(x, y, z, 1.0).
Homogeneous(m, v) == MulMV(m, V4New(v.x, v.y, v.z, F1))

\* The map closure: v.xyz() / v.w, component by component.
Transform(m, v) ==
    LET h == Homogeneous(m, v)
    IN  V3New(FDiv(h.x, h.w), FDiv(h.y, h.w), FDiv(h.z, h.w))

\* Vertex2 { position: [v.x, v.y, v.z], attrib: [a.x, a.y] }
Vertex2(v, a) == [position |-> <<v.x, v.y, v.z>>, attrib |-> <<a.x, a.y>>]

\* Vertex3 { position: [v.x, v.y, v.z], attrib: [a.x, a.y, a.z] }
Vertex3(v, a) == [position |-> <<v.x, v.y, v.z>>, attrib |-> <<a.x, a.y, a.z>>]

(***************************************************************************)
(* usize, u32 and u16.  A usize or u32 value is kept as two limbs,         *)
(* value = hi * 2^16 + lo with lo < 2^16 (a usize of a 64-bit target has   *)
(* hi < 2^48, a u32 has hi < 2^16); a u16 value is a number below 2^16.    *)
(***************************************************************************)
Usize(hi, lo) == [hi |-> hi, lo |-> lo]

\* `x as u16`: the low 16 bits.
AsU16(x) == x.lo

\* `x as u32`: the low 32 bits.
AsU32(x) == [hi |-> x.hi % U16Radix, lo |-> x.lo]

\* A stored u16 / u32 entry read back as a usize.
U16ToUsize(s) == Usize(0, s)

U32ToUsize(w) == Usize(w.hi, w.lo)

\* index < n for a usize index and a length n.
IndexBelow(x, n) ==
    \/ x.hi < n \div U16Radix
    \/ x.hi = n \div U16Radix /\ x.lo < n % U16Radix

(***************************************************************************)
(* Vertex lists (the position and attribute arguments, the collect buffer  *)
(* and the mesh's vertices) are kept run-length packed in the state, as    *)
(* the sequence of their runs of equal consecutive elements, so that a     *)
(* list of 65536 vertices stays small; every step reads and writes them    *)
(* element by element through PAt and Pack.                                *)
(***************************************************************************)
\* The runs of the sequence f.
Pack(f) ==
    LET t == f \o <<>>
        n == Len(t)
        starts == {i \in 1..n : i = 1 \/ t[i] # t[i - 1]}
        start(r) == CHOOSE b \in starts : Cardinality({c \in starts : c < b}) = r - 1
        stop(r) == IF r < Cardinality(starts) THEN start(r + 1) ELSE n + 1
    IN  [r \in 1..Cardinality(starts) |->
            [count |-> stop(r) - start(r), value |-> t[start(r)]]]

RECURSIVE PLenFrom(_, _)
PLenFrom(p, r) == IF r > Len(p) THEN 0 ELSE p[r].count + PLenFrom(p, r + 1)

\* Length of the packed sequence p.
PLen(p) == PLenFrom(p, 1)

RECURSIVE PAtFrom(_, _, _)
PAtFrom(p, r, i) == IF i <= p[r].count THEN p[r].value ELSE PAtFrom(p, r + 1, i - p[r].count)

\* Element i of the packed sequence p.
PAt(p, i) == PAtFrom(p, 1, i)

Min(a, b) == IF a <= b THEN a ELSE b

(***************************************************************************)
(* Mesh2 / Mesh3: the struct, and the steps of new().                      *)
(***************************************************************************)
\* Mutant of LengthsAgree: the assertion is missing.
LengthsAgree_unchecked(vertices, attribs) == TRUE

\* Mutant of LengthsAgree: the assertion also rejects empty lists.
LengthsAgree_nonEmpty(vertices, attribs) ==
    Len(vertices) = Len(attribs) /\ Len(vertices) > 0

\* assert_eq!(vertices.len(), attribs.len())
LengthsAgree(vertices, attribs) == Len(vertices) = Len(attribs)

\* Length of par_iter().map(..).zip(attribs): zip stops at the shorter side.
ZipLen(vertices, attribs) == Min(Len(vertices), Len(attribs))

\* The jobs the parallel iterator is split into, each a range <<lo, hi>> of
\* element numbers: one job per element, and a single job for a large list.
Jobs(n) == IF n < U16Max THEN {<<i, i>> : i \in 1..n} ELSE {<<1, n>>}

\* Number of slots of the collect buffer already written.
Filled(buffer) == Cardinality({s \in 1..PLen(buffer) : PAt(buffer, s) # <<>>})

\* Mutant of SlotBase: items are appended in the order the jobs complete.
SlotBase_completion(lo, buffer) == Filled(buffer) + 1

\* collect() of an indexed parallel iterator: the items of the job starting at
\* element lo are written from slot lo on, whichever jobs ran before.
SlotBase(lo, buffer) == lo

\* The buffer after the job <<lo, hi>> wrote its items, items[i] being the
\* vertex record made for element i.
WriteJob(buffer, lo, hi, items) ==
    LET base == SlotBase(lo, buffer)
    IN  Pack([s \in 1..PLen(buffer) |->
                IF s >= base /\ s <= base + (hi - lo)
                THEN <<items[s - base + lo]>>
                ELSE PAt(buffer, s)])

\* Mutant of UsesU16: the comparison is strict.
UsesU16_strict(n) == n < U16Max

\* Mutant of UsesU16: the 16-bit encoding is always taken.
UsesU16_always(n) == TRUE

\* if vertices.len() <= u16::MAX as usize
UsesU16(n) == n <= U16Max

\* indices.iter().map(|x| *x as u16).collect()
NarrowU16(indices) == [k \in 1..Len(indices) |-> AsU16(indices[k])]

\* indices.iter().map(|x| *x as u32).collect()
NarrowU32(indices) == [k \in 1..Len(indices) |-> AsU32(indices[k])]

\* Mutant of IndexLength: the byte length of a 16-bit index buffer.
IndexLength_bytes(indices) == 2 * Len(indices)

\* let index_length = indices.len();
IndexLength(indices) == Len(indices)

\* Lines 65-84 / 148-167: the struct returned for the collected vertices.
EncodeIndices(vertices, indices) ==
    LET index_length == IndexLength(indices)
    IN  IF UsesU16(PLen(vertices))
        THEN [vertices     |-> vertices,
              indices_u32  |-> <<>>,
              indices_u16  |-> NarrowU16(indices),
              index_format |-> "Uint16",
              index_length |-> index_length]
        ELSE [vertices     |-> vertices,
              indices_u32  |-> NarrowU32(indices),
              indices_u16  |-> <<>>,
              index_format |-> "Uint32",
              index_length |-> index_length]

\* Entry of new(): the assertion, then the parallel map is started.
NewCall(k, vertices, indices, attribs, transform_matrix) ==
    /\ pc = "idle"
    /\ kind' = k
    /\ args' = [vertices |-> Pack(vertices), indices |-> indices,
                attribs |-> Pack(attribs), transform_matrix |-> transform_matrix]
    /\ IF LengthsAgree(vertices, attribs)
       THEN /\ pc' = "map"
            /\ slots' = Pack([s \in 1..ZipLen(vertices, attribs) |-> <<>>])
            /\ pending' = Jobs(ZipLen(vertices, attribs))
       ELSE /\ pc' = "panicked"
            /\ slots' = <<>>
            /\ pending' = {}
    /\ outOfOrder' = FALSE
    /\ mesh' = <<>>

Mesh2New(vertices, indices, attribs_2D, transform_matrix) ==
    NewCall("Mesh2", vertices, indices, attribs_2D, transform_matrix)

Mesh3New(vertices, indices, attribs_3D, transform_matrix) ==
    NewCall("Mesh3", vertices, indices, attribs_3D, transform_matrix)

\* One job of the parallel map of Mesh2::new: transform, zip, pack.
Mesh2MapJob(j) ==
    /\ pc = "map" /\ kind = "Mesh2" /\ j \in pending
    /\ LET transform_matrix == EffectiveMatrix(args.transform_matrix)
           items == [i \in j[1]..j[2] |->
                        Vertex2(Transform(transform_matrix, PAt(args.vertices, i)),
                                PAt(args.attribs, i))]
       IN  slots' = WriteJob(slots, j[1], j[2], items)
    /\ pending' = pending \ {j}
    /\ outOfOrder' = (outOfOrder \/ \E q \in pending : q[2] < j[1])
    /\ UNCHANGED <<pc, kind, args, mesh>>

\* One job of the parallel map of Mesh3::new.
Mesh3MapJob(j) ==
    /\ pc = "map" /\ kind = "Mesh3" /\ j \in pending
    /\ LET transform_matrix == EffectiveMatrix(args.transform_matrix)
           items == [i \in j[1]..j[2] |->
                        Vertex3(Transform(transform_matrix, PAt(args.vertices, i)),
                                PAt(args.attribs, i))]
       IN  slots' = WriteJob(slots, j[1], j[2], items)
    /\ pending' = pending \ {j}
    /\ outOfOrder' = (outOfOrder \/ \E q \in pending : q[2] < j[1])
    /\ UNCHANGED <<pc, kind, args, mesh>>

\* collect() returns once every job has run; the indices are encoded and the
\* mesh is returned.
Mesh2Finish ==
    /\ pc = "map" /\ kind = "Mesh2" /\ pending = {}
    /\ LET vertices == Pack([i \in 1..PLen(slots) |-> PAt(slots, i)[1]])
       IN  mesh' = <<EncodeIndices(vertices, args.indices)>>
    /\ pc' = "done"
    /\ UNCHANGED <<kind, args, slots, pending, outOfOrder>>

Mesh3Finish ==
    /\ pc = "map" /\ kind = "Mesh3" /\ pending = {}
    /\ LET vertices == Pack([i \in 1..PLen(slots) |-> PAt(slots, i)[1]])
       IN  mesh' = <<EncodeIndices(vertices, args.indices)>>
    /\ pc' = "done"
    /\ UNCHANGED <<kind, args, slots, pending, outOfOrder>>

(***************************************************************************)
(* Geometry queries of a mesh.                                             *)
(***************************************************************************)
\* Native-endian bytes of a u16 and of a u32 (little-endian target).
U16Bytes(s) == <<s % 256, s \div 256>>

U32Bytes(w) == U16Bytes(w.lo) \o U16Bytes(w.hi)

\* bytemuck::cast_slice of a slice whose entries have the given `width`-byte
\* encodings: the encodings one after the other.
CastSlice(encoded, width) ==
    [b \in 1..(width * Len(encoded)) |->
        encoded[((b - 1) \div width) + 1][((b - 1) % width) + 1]]

U16Slice(slice) == [k \in 1..Len(slice) |-> U16Bytes(slice[k])]

U32Slice(slice) == [k \in 1..Len(slice) |-> U32Bytes(slice[k])]

\* The 4 bytes of an f32, kept symbolic: byte k of the value f.
F32Bytes(f) == <<<<f, 1>>, <<f, 2>>, <<f, 3>>, <<f, 4>>>>

RECURSIVE Flatten(_)
Flatten(ss) == IF ss = <<>> THEN <<>> ELSE Head(ss) \o Flatten(Tail(ss))

\* The bytes of one vertex record: position, then attrib, 4 bytes a float.
VertexBytes(v) ==
    Flatten([k \in 1..Len(v.position \o v.attrib) |->
                F32Bytes((v.position \o v.attrib)[k])])

get_vertex_raw(m) ==
    Flatten([i \in 1..PLen(m.vertices) |-> VertexBytes(PAt(m.vertices, i))])

\* Mutant of get_index_raw: the buffers of the two arms are exchanged.
get_index_raw_swapped(m) ==
    IF m.index_format = "Uint16"
    THEN CastSlice(U32Slice(m.indices_u32), 4)
    ELSE CastSlice(U16Slice(m.indices_u16), 2)

get_index_raw(m) ==
    IF m.index_format = "Uint16"
    THEN CastSlice(U16Slice(m.indices_u16), 2)
    ELSE CastSlice(U32Slice(m.indices_u32), 4)

get_index_format(m) == m.index_format

get_num_indices(m) == m.index_length

(***************************************************************************)
(* Fixed shapes.                                                           *)
(***************************************************************************)
PentagonVertexCount == 5

PentagonINDICES == <<0, 1, 4, 1, 2, 4, 2, 3, 4>>

CubeVertexCount == 8

CubeINDICES ==
    <<0, 1, 3, 3, 1, 2,
      2, 1, 5, 2, 5, 6,
      3, 2, 7, 7, 2, 6,
      4, 0, 3, 4, 3, 7,
      4, 1, 0, 4, 5, 1,
      7, 6, 5, 7, 5, 4>>

RectangleINDICES ==
    <<Usize(0, 0), Usize(0, 1), Usize(0, 2), Usize(0, 0), Usize(0, 2), Usize(0, 3)>>

RectangleAttribs == <<V2New(F0, F1), V2New(F1, F1), V2New(F1, F0), V2New(F0, F0)>>

StandardRectanglePos ==
    <<V3New(FNeg1, FNeg1, F0), V3New(F1, FNeg1, F0),
      V3New(F1, F1, F0), V3New(FNeg1, F1, F0)>>

UnitRectanglePos ==
    <<V3New(F0, F0, F0), V3New(F1, F0, F0), V3New(F1, F1, F0), V3New(F0, F1, F0)>>

new_standard_rectangle ==
    /\ pc = "idle"
    /\ Mesh2New(StandardRectanglePos, RectangleINDICES, RectangleAttribs, None)

new_unit_rectangle ==
    /\ pc = "idle"
    /\ Mesh2New(UnitRectanglePos, RectangleINDICES, RectangleAttribs, None)

(***************************************************************************)
(* The calls explored.                                                     *)
(***************************************************************************)
SeqsUpTo(S, n) == UNION {[1..k -> S] : k \in 0..n}

Repeat(x, n) == [i \in 1..n |-> x]

\* z = -1 is mapped to weight 0 by WFromZ, z = 0 to weight 1/2.
Points == {V3New(F1, F0, FNeg1), V3New(FNeg1, F1, F0)}

Attribs2D == {V2New(F0, F1), V2New(F1, F0)}

Attribs3D == {V3New(F0, F1, F0), V3New(F1, F0, F1)}

\* 0, 1 and 65536 (65535 and 2^32 + 1 are among the LargeCalls).
IndexValues == {Usize(0, 0), Usize(0, 1), Usize(1, 0)}

\* A projective matrix whose output weight is the input's z: w' = z.
WFromZ ==
    Mat4New(V4New(F1, F0, F0, F0),
            V4New(F0, F1, F0, F0),
            V4New(F0, F0, F1, F1),
            V4New(F0, F0, F0, F0))

Matrices == {None, Some(WFromZ)}

\* Calls at the 16-bit limit, each a vertex count and an index list:
\* 65535 vertices with index 65535, 65536 vertices with index 2^32 + 1,
\* 65537 vertices with indices 65536 and 0.
LargeCalls ==
    {<<U16Max, <<Usize(0, U16Max)>>>>,
     <<U16Max + 1, <<Usize(U16Radix, 1)>>>>,
     <<U16Max + 2, <<Usize(1, 0), Usize(0, 0)>>>>}

Init ==
    /\ pc = "idle"
    /\ kind = "none"
    /\ args = [vertices |-> <<>>, indices |-> <<>>, attribs |-> <<>>,
               transform_matrix |-> None]
    /\ slots = <<>>
    /\ pending = {}
    /\ outOfOrder = FALSE
    /\ mesh = <<>>

\* A generic call of Mesh2::new / Mesh3::new, on lists of up to MaxLen
\* positions and attributes and up to MaxIdx indices.
Mesh2NewSmall ==
    /\ pc = "idle"
    /\ \E v \in SeqsUpTo(Points, MaxLen), i \in SeqsUpTo(IndexValues, MaxIdx),
          a \in SeqsUpTo(Attribs2D, MaxLen), m \in Matrices :
            Mesh2New(v, i, a, m)

Mesh3NewSmall ==
    /\ pc = "idle"
    /\ \E v \in SeqsUpTo(Points, MaxLen), i \in SeqsUpTo(IndexValues, MaxIdx),
          a \in SeqsUpTo(Attribs3D, MaxLen), m \in Matrices :
            Mesh3New(v, i, a, m)

Next ==
    \/ Mesh2NewSmall
    \/ Mesh3NewSmall
    \/ new_standard_rectangle
    \/ new_unit_rectangle
    \/ \E j \in pending : Mesh2MapJob(j)
    \/ \E j \in pending : Mesh3MapJob(j)
    \/ Mesh2Finish
    \/ Mesh3Finish

Spec == Init /\ [][Next]_vars

\* The same program, also called with the vertex lists of LargeCalls.
Mesh2NewLarge ==
    /\ pc = "idle"
    /\ \E c \in LargeCalls :
            Mesh2New(Repeat(V3New(FNeg1, F1, F0), c[1]), c[2],
                     Repeat(V2New(F0, F1), c[1]), None)

Mesh3NewLarge ==
    /\ pc = "idle"
    /\ \E c \in LargeCalls :
            Mesh3New(Repeat(V3New(FNeg1, F1, F0), c[1]), c[2],
                     Repeat(V3New(F0, F1, F0), c[1]), None)

LargeNext == Next \/ Mesh2NewLarge \/ Mesh3NewLarge

SpecLarge == Init /\ [][LargeNext]_vars

(***************************************************************************)
(* Properties.                                                             *)
(***************************************************************************)
Built == pc = "done"

TheMesh == mesh[1]

\* Whether a usize value is representable in the given index format.
FitsFormat(x, format) == IF format = "Uint16" THEN x.hi = 0 ELSE x.hi < U16Radix

\* The attrib array a vertex record of the mesh type under construction holds
\* for the input attribute a.
AttribArray(a) == IF kind = "Mesh2" THEN <<a.x, a.y>> ELSE <<a.x, a.y, a.z>>

\* C1: a mesh is produced only if every input index is representable in the
\* index width chosen for it (an index above 65535 for 16-bit, above 2^32 - 1
\* for 32-bit, makes construction fail instead of being wrapped).
C1_OutOfRangeIndexRejected ==
    Built =>
        \A k \in 1..Len(args.indices) :
            FitsFormat(args.indices[k], get_index_format(TheMesh))

\* C2: the index format of a built mesh is 16-bit exactly when it has at most
\* 65535 vertices, and 32-bit exactly when it has more.
C2_FormatByVertexCount ==
    Built =>
        /\ get_index_format(TheMesh) = "Uint16" <=> PLen(TheMesh.vertices) <= 65535
        /\ get_index_format(TheMesh) = "Uint32" <=> PLen(TheMesh.vertices) > 65535

C2_Witness ==
    /\ Built
    /\ PLen(TheMesh.vertices) = 65536
    /\ get_index_format(TheMesh) = "Uint32"

\* C3: a built mesh has one vertex record per input position, record i made of
\* the transform of position i and of attribute i, in whatever order the jobs
\* of the parallel map ran.
C3_VerticesInInputOrder ==
    Built =>
        /\ PLen(TheMesh.vertices) = PLen(args.vertices)
        /\ PLen(TheMesh.vertices) = PLen(args.attribs)
        /\ \A i \in 1..PLen(args.vertices) :
            LET t == Transform(EffectiveMatrix(args.transform_matrix), PAt(args.vertices, i))
            IN  /\ PAt(TheMesh.vertices, i).position = <<t.x, t.y, t.z>>
                /\ PAt(TheMesh.vertices, i).attrib = AttribArray(PAt(args.attribs, i))

C3_Witness ==
    /\ Built
    /\ outOfOrder
    /\ PLen(TheMesh.vertices) >= 2
    /\ PAt(TheMesh.vertices, 1) # PAt(TheMesh.vertices, 2)

\* C4: a call with position and attribute lists of different lengths panics
\* before anything is transformed or packed, and returns no mesh.
C4_LengthMismatchAborts ==
    (pc # "idle" /\ PLen(args.vertices) # PLen(args.attribs)) =>
        /\ pc = "panicked"
        /\ mesh = <<>>
        /\ slots = <<>>
        /\ pending = {}

C4_Witness ==
    /\ pc = "panicked"
    /\ PLen(args.vertices) = 2
    /\ PLen(args.attribs) = 1

\* C5: get_num_indices() of a built mesh is the length of the input index
\* list, in both index widths.
C5_NumIndicesIsInputLength ==
    Built => get_num_indices(TheMesh) = Len(args.indices)

C5_Witness ==
    /\ Built
    /\ get_index_format(TheMesh) = "Uint32"
    /\ Len(args.indices) = 2
    /\ get_num_indices(TheMesh) = 2

\* The u16 / u32 value that the bytes of raw starting at byte b encode.
DecodeU16(raw, b) == raw[b] + 256 * raw[b + 1]

DecodeU32(raw, b) == [hi |-> DecodeU16(raw, b + 2), lo |-> DecodeU16(raw, b)]

\* C6: in a built mesh the buffer of the tagged width holds index_length
\* entries, the other buffer is empty, and get_index_raw() is the bytes of the
\* tagged buffer.
C6_OneIndexBufferPopulated ==
    Built =>
        LET m == TheMesh
            raw == get_index_raw(m)
        IN  /\ m.index_format \in {"Uint16", "Uint32"}
            /\ m.index_format = "Uint16" =>
                /\ m.indices_u32 = <<>>
                /\ Len(m.indices_u16) = m.index_length
                /\ Len(raw) = 2 * m.index_length
                /\ \A k \in 1..Len(m.indices_u16) :
                    DecodeU16(raw, 2 * k - 1) = m.indices_u16[k]
            /\ m.index_format = "Uint32" =>
                /\ m.indices_u16 = <<>>
                /\ Len(m.indices_u32) = m.index_length
                /\ Len(raw) = 4 * m.index_length
                /\ \A k \in 1..Len(m.indices_u32) :
                    DecodeU32(raw, 4 * k - 3) = m.indices_u32[k]

C6_Witness ==
    /\ Built
    /\ TheMesh.index_format = "Uint32"
    /\ TheMesh.index_length = 2
    /\ Len(TheMesh.indices_u32) = 2
    /\ Len(get_index_raw(TheMesh)) = 8

\* C7: a mesh is produced only if no input position has homogeneous weight
\* zero under the effective matrix (such a call is rejected), and no stored
\* position component comes from a division by zero.
C7_ZeroWeightRejected ==
    Built =>
        \A i \in 1..PLen(args.vertices) :
            /\ ~IsZero(Homogeneous(EffectiveMatrix(args.transform_matrix),
                                   PAt(args.vertices, i)).w)
            /\ \A c \in 1..3 : IsFinite(PAt(TheMesh.vertices, i).position[c])

\* C8: without a transform matrix every vertex keeps x and y and gets
\* z = 0.5 z + 0.5; the unit rectangle gives 4 vertices, the 16-bit format,
\* 6 indices and vertex 0 at (0, 0, 0.5).
C8_NoMatrixIsClipConversion ==
    (Built /\ args.transform_matrix = None) =>
        /\ \A i \in 1..PLen(args.vertices) :
            /\ i <= PLen(TheMesh.vertices)
            /\ PAt(TheMesh.vertices, i).position[1] = PAt(args.vertices, i).x
            /\ PAt(TheMesh.vertices, i).position[2] = PAt(args.vertices, i).y
            /\ PAt(TheMesh.vertices, i).position[3] =
                    FAdd(FMul(FHalf, PAt(args.vertices, i).z), FHalf)
        /\ (/\ args.vertices = Pack(UnitRectanglePos)
            /\ args.attribs = Pack(RectangleAttribs)
            /\ args.indices = RectangleINDICES) =>
                /\ PLen(TheMesh.vertices) = 4
                /\ get_index_format(TheMesh) = "Uint16"
                /\ get_num_indices(TheMesh) = 6
                /\ PAt(TheMesh.vertices, 1).position = <<F0, F0, FHalf>>

C8_Witness ==
    /\ Built
    /\ args.transform_matrix = None
    /\ args.vertices = Pack(UnitRectanglePos)
    /\ get_num_indices(TheMesh) = 6

EmptyCall ==
    /\ pc # "idle"
    /\ args.vertices = <<>>
    /\ args.attribs = <<>>
    /\ args.indices = <<>>

\* C9: a call with empty position, attribute and index lists does not fail,
\* can always complete, and gives a mesh with no vertex, no index, empty
\* vertex and index bytes and the 16-bit format.
C9_EmptyInputGivesEmptyMesh ==
    EmptyCall =>
        /\ pc \in {"map", "done"}
        /\ pc = "map" => ENABLED (Mesh2Finish \/ Mesh3Finish)
        /\ pc = "done" =>
            /\ TheMesh.vertices = <<>>
            /\ get_num_indices(TheMesh) = 0
            /\ get_vertex_raw(TheMesh) = <<>>
            /\ get_index_raw(TheMesh) = <<>>
            /\ get_index_format(TheMesh) = "Uint16"

C9_Witness ==
    /\ EmptyCall
    /\ Built
    /\ args.transform_matrix # None
    /\ get_num_indices(TheMesh) = 0

AllIndicesValid ==
    \A k \in 1..Len(args.indices) : IndexBelow(args.indices[k], PLen(TheMesh.vertices))

====
